---- MODULE Spec2Model ----
(***************************************************************************)
(* The lock-guarded transaction executor of the shared state manager       *)
(* (SharedState._with_file_lock, src/src/core/state_manager.py) run by     *)
(* several independent OS processes against one primary file and its       *)
(* .bak sibling.                                                           *)
(*                                                                         *)
(* Files are sequences of tokens.  json.dump writes a document as          *)
(*   "{" key entry* key entry* ... "}"                                     *)
(* and json.load accepts exactly the token sequences of that shape.  A     *)
(* write through a file object positioned at offset 0 overwrites the       *)
(* leading tokens of the file and keeps whatever lies behind them, so the  *)
(* truncate and the write of two unsynchronised writers can interleave     *)
(* into a file that no longer parses.                                      *)
(*                                                                         *)
(* The second part models the repository operations (agents, scheduler,    *)
(* tasks, messages, branches, pull requests, reasoning logs), each as one  *)
(* committed transaction on the document: TaskSpec, CapacitySpec,          *)
(* SchedSpec, MessageSpec, LookupSpec, QuerySpec, LogSpec, BranchSpec and  *)
(* PullSpec.                                                               *)
(***************************************************************************)
EXTENDS Integers, Sequences, FiniteSets, TLC

\* ---------------------------------------------------------------- bounds
MaxCalls == 2      \* calls of _with_file_lock in a run
MaxSleeps == 1     \* 0.5 s sleeps that fit into the 30 s lock wait (60 in the code)

\* ------------------------------------------------------ program constants
max_retries == 3   \* default of the max_retries parameter

\* The concurrent OS processes.
Procs == {1, 2}
NoProc == 0

VARIABLES
    primary,      \* contents of the state file
    bak,          \* contents of the .bak file
    lockHolder,   \* process holding flock(LOCK_EX) on the state file, or NoProc
    pc,           \* position of each process inside _with_file_lock
    loc,          \* the locals of each process's running call
    calls,        \* calls started so far
    crashed,      \* some process has died inside a call
    \* ---- history (never read by the program)
    timedOut,     \* some process has taken the lock-wait-timeout branch
    ioRaised,     \* some callback has raised an OS-class error
    commits,      \* entries appended by committed transactions, in commit order
    h,            \* per-process history of the running call
    \* ---- the repository operations, each one committed transaction
    data,         \* the document the last committed transaction left
    now,          \* int(time.time()): the clock second
    uuids,        \* uuid.uuid4() values drawn so far
    opsLeft,      \* repository operations the callers still make
    \* ---- history (never read by the program)
    last,         \* the last repository operation: arguments, result, document before
    issued,       \* the task IDs add_task has returned, in call order
    asked         \* the scheduler's answers since the document last changed

\* The variables of the executor, and those of the repository operations.
execVars == <<primary, bak, lockHolder, pc, loc, calls, crashed, timedOut, ioRaised, commits, h>>
repoVars == <<data, now, uuids, opsLeft, last, issued, asked>>

vars == <<execVars, repoVars>>

\* ------------------------------------------------------------- documents
\* The six collections, in the order _initialize_state_file writes them.
Keys == <<"tasks", "branches", "messages", "pull_requests", "reasoning_logs", "agents">>
KeySet == {Keys[i] : i \in 1..Len(Keys)}

\* The collection the modelled callbacks append to (add_message: data["messages"].append).
MsgKey == "messages"

\* The entry process p appends.
MsgOf(p) == <<"m1", "m2">>[p]

initial_state == [k \in KeySet |-> <<>>]

\* A file that does not exist (the .bak before the first copy).
Missing == <<"ENOENT">>

RECURSIVE DumpFrom(_, _)
DumpFrom(doc, i) ==
    IF i > Len(Keys) THEN <<>>
    ELSE (IF Keys[i] \in DOMAIN doc THEN <<Keys[i]>> \o doc[Keys[i]] ELSE <<>>)
         \o DumpFrom(doc, i + 1)

\* json.dump(doc, f): the tokens written.
Dump(doc) == <<"{">> \o DumpFrom(doc, 1) \o <<"}">>

\* json.load succeeds on f.
Parses(f) ==
    /\ Len(f) >= 2
    /\ f[1] = "{"
    /\ f[Len(f)] = "}"
    /\ \A i \in 2..(Len(f) - 1) : f[i] \notin {"{", "}"}
    /\ Len(f) > 2 => f[2] \in KeySet
    /\ \A i, j \in 2..(Len(f) - 1) : (f[i] \in KeySet /\ f[i] = f[j]) => i = j

\* Index of the token that ends the collection opened at position i.
RECURSIVE EndOf(_, _)
EndOf(f, i) ==
    IF i >= Len(f) \/ f[i + 1] \in KeySet \cup {"}"} THEN i ELSE EndOf(f, i + 1)

\* json.load(f) for a file that parses.
Load(f) ==
    LET pos(k) == CHOOSE i \in 2..(Len(f) - 1) : f[i] = k
    IN  [k \in {f[i] : i \in 2..(Len(f) - 1)} \cap KeySet |->
            SubSeq(f, pos(k) + 1, EndOf(f, pos(k)))]

\* write(content) through a file object positioned at offset 0.
WriteAt0(file, content) ==
    content \o SubSeq(file, Len(content) + 1, Len(file))

\* f.truncate() at offset 0, or open(path, "wb").
Truncated == <<>>

\* ------------------------------------------------------------- callbacks
\* The callbacks handed to _with_file_lock: a repository operation that appends
\* (add_message), a repository query (get_messages), and callbacks that mutate
\* the document and then raise: an ordinary exception (the test's
\* failing_callback), an OSError (IOError is the same class) or its subclass
\* BlockingIOError.
Ops == {"add_message", "get_messages", "failing_callback", "oserror_callback",
        "blocking_callback"}

\* What the callback raises, if it raises.
Raises(o) ==
    CASE o = "failing_callback" -> "ValueError"
      [] o = "oserror_callback" -> "OSError"
      [] o = "blocking_callback" -> "BlockingIOError"
      [] OTHER -> "none"

\* data[MsgKey].append(entry)
Appended(doc, entry) == [doc EXCEPT ![MsgKey] = Append(@, entry)]

\* ------------------------------------------------------------ per process
NoLocals ==
    [op |-> "none", data |-> initial_state, data_backup |-> initial_state,
     exc |-> "none", retry_count |-> 0, sleeps |-> 0, usedForce |-> FALSE]

NoHistory ==
    [base |-> Missing, dirty |-> FALSE, alone |-> TRUE, invocations |-> 0,
     recoverable |-> FALSE, afterCrash |-> FALSE, restored |-> FALSE]

\* History after process p changed a file (toPrimary: the state file).
Touch(p, toPrimary) ==
    [q \in Procs |->
        IF q = p THEN h[q]
        ELSE [h[q] EXCEPT !.dirty = @ \/ toPrimary, !.alone = FALSE]]

\* No repository operation has run yet.
NoCall == [op |-> "none"]

\* SharedState(): the state file holds the six empty collections, no process
\* is inside a call.
ExecInit ==
    /\ primary = Dump(initial_state)
    /\ bak = Missing
    /\ lockHolder = NoProc
    /\ pc = [p \in Procs |-> "idle"]
    /\ loc = [p \in Procs |-> NoLocals]
    /\ calls = 0
    /\ crashed = FALSE
    /\ timedOut = FALSE
    /\ ioRaised = FALSE
    /\ commits = <<>>
    /\ h = [p \in Procs |-> NoHistory]

\* The runs of the executor: the callbacks are the abstract ones of Ops.
Init ==
    /\ ExecInit
    /\ data = initial_state
    /\ now = 0
    /\ uuids = 0
    /\ opsLeft = 0
    /\ last = NoCall
    /\ issued = <<>>
    /\ asked = <<>>

\* Mutant: a lock that excludes nobody (LOCK_SH, or a lock on another file).
FlockExcludesNobody(p) == TRUE

\* fcntl.flock(f, LOCK_EX | LOCK_NB) by p does not raise BlockingIOError.
FlockSucceeds(p) == lockHolder = NoProc

\* Mutant: leaving the with block does not release the lock.
StillLocked(p) == lockHolder

\* The lock after p's file object is closed (leaving the with block, or the
\* process dying): a lock p holds is released, another process's lock is not.
Closed(p) == IF lockHolder = p THEN NoProc ELSE lockHolder

\* Mutant: the commit writes the snapshot instead of the transformed document.
StaleCommitContent(p) == loc[p].data_backup

\* What the commit writes: json.dump(data, f).
CommitContent(p) == loc[p].data

\* What the rollback writes: json.dump(data_backup, f).
RollbackContent(p) == loc[p].data_backup

\* A caller invokes _with_file_lock(callback).
Call(p) ==
    /\ pc[p] = "idle"
    /\ calls < MaxCalls
    /\ \E o \in Ops :
          loc' = [loc EXCEPT ![p] = [NoLocals EXCEPT !.op = o]]
    /\ calls' = calls + 1
    /\ h' = [h EXCEPT ![p] = [NoHistory EXCEPT
                                 !.recoverable = (~Parses(primary) /\ Parses(bak)),
                                 !.afterCrash = crashed]]
    /\ pc' = [pc EXCEPT ![p] = "backup_open"]
    /\ UNCHANGED <<repoVars, primary, bak, lockHolder, crashed, timedOut, ioRaised, commits>>

\* shutil.copy2(state_file, backup_file): the destination is opened "wb".
BackupOpen(p) ==
    /\ pc[p] = "backup_open"
    /\ bak' = Truncated
    /\ h' = Touch(p, FALSE)
    /\ pc' = [pc EXCEPT ![p] = "backup_copy"]
    /\ UNCHANGED <<repoVars, primary, lockHolder, loc, calls, crashed, timedOut, ioRaised, commits>>

\* shutil.copy2(state_file, backup_file): the source's bytes are copied.
BackupCopy(p) ==
    /\ pc[p] = "backup_copy"
    /\ bak' = WriteAt0(bak, primary)
    /\ h' = Touch(p, FALSE)
    /\ pc' = [pc EXCEPT ![p] = "acquire"]
    /\ UNCHANGED <<repoVars, primary, lockHolder, loc, calls, crashed, timedOut, ioRaised, commits>>

\* open(state_file, "r+") and a flock that succeeds.
Acquire(p) ==
    /\ pc[p] = "acquire"
    /\ FlockSucceeds(p)
    /\ lockHolder' = p
    /\ loc' = [loc EXCEPT ![p].sleeps = 0]
    /\ pc' = [pc EXCEPT ![p] = "load"]
    /\ UNCHANGED <<repoVars, primary, bak, calls, crashed, timedOut, ioRaised, commits, h>>

\* flock raises BlockingIOError within the wait ceiling: time.sleep(0.5).
Sleep(p) ==
    /\ pc[p] = "acquire"
    /\ ~FlockSucceeds(p)
    /\ loc[p].sleeps < MaxSleeps
    /\ loc' = [loc EXCEPT ![p].sleeps = @ + 1]
    /\ UNCHANGED <<repoVars, primary, bak, lockHolder, pc, calls, crashed, timedOut, ioRaised, commits, h>>

\* Mutant: fail closed, raising to the caller instead of proceeding.
FailClosed == "raised"

\* Where a process goes when its lock wait has exceeded the ceiling.
AfterTimeout == "load"

\* flock raises BlockingIOError past the wait ceiling: break, without the lock.
Timeout(p) ==
    /\ pc[p] = "acquire"
    /\ ~FlockSucceeds(p)
    /\ loc[p].sleeps >= MaxSleeps
    /\ loc' = [loc EXCEPT ![p].usedForce = TRUE, ![p].sleeps = 0]
    /\ timedOut' = TRUE
    /\ pc' = [pc EXCEPT ![p] = AfterTimeout]
    /\ UNCHANGED <<repoVars, primary, bak, lockHolder, calls, crashed, ioRaised, commits, h>>

\* data = json.load(f); data_backup = copy.deepcopy(data)
LoadPrimary(p) ==
    /\ pc[p] = "load"
    /\ IF Parses(primary)
       THEN /\ loc' = [loc EXCEPT ![p].data = Load(primary),
                                  ![p].data_backup = Load(primary)]
            /\ pc' = [pc EXCEPT ![p] = "apply"]
       ELSE /\ loc' = loc
            /\ pc' = [pc EXCEPT ![p] = "load_backup"]
    /\ h' = IF h[p].base = Missing
            THEN [h EXCEPT ![p].base = primary, ![p].dirty = FALSE]
            ELSE h
    /\ UNCHANGED <<repoVars, primary, bak, lockHolder, calls, crashed, timedOut, ioRaised, commits>>

\* Mutant: with neither file parsable the call goes on with the empty
\* document.
FallBackToEmpty(b) == "apply"

\* Where a call goes when the .bak does not load either: a missing .bak is a
\* FileNotFoundError (an OSError); a JSONDecodeError is no IOError and leaves
\* _with_file_lock.
AfterBackupFails(b) == IF b = Missing THEN "restore_check" ELSE "raised"

\* except json.JSONDecodeError: data = json.load(bf)
LoadBackup(p) ==
    /\ pc[p] = "load_backup"
    /\ IF Parses(bak)
       THEN /\ loc' = [loc EXCEPT ![p].data = Load(bak),
                                  ![p].data_backup = Load(bak)]
            /\ pc' = [pc EXCEPT ![p] = "apply"]
            /\ lockHolder' = lockHolder
       ELSE /\ loc' = [loc EXCEPT ![p].exc =
                          IF bak = Missing THEN "OSError" ELSE "JSONDecodeError"]
            /\ pc' = [pc EXCEPT ![p] = AfterBackupFails(bak)]
            /\ lockHolder' = Closed(p)
    /\ UNCHANGED <<repoVars, primary, bak, calls, crashed, timedOut, ioRaised, commits, h>>

\* result = callback(data)
Apply(p) ==
    /\ pc[p] = "apply"
    /\ h' = [h EXCEPT ![p].invocations = IF @ < 2 THEN @ + 1 ELSE @]
    /\ \/ /\ loc[p].op = "add_message"
          /\ loc' = [loc EXCEPT ![p].data = Appended(@, MsgOf(p))]
          /\ pc' = [pc EXCEPT ![p] = "commit_truncate"]
          /\ ioRaised' = ioRaised
       \/ /\ loc[p].op = "get_messages"
          /\ loc' = loc
          /\ pc' = [pc EXCEPT ![p] = "commit_truncate"]
          /\ ioRaised' = ioRaised
       \/ /\ Raises(loc[p].op) # "none"
          /\ loc' = [loc EXCEPT ![p].data = Appended(@, MsgOf(p)),
                                ![p].exc = Raises(loc[p].op)]
          /\ ioRaised' = (ioRaised \/ Raises(loc[p].op) # "ValueError")
          /\ pc' = [pc EXCEPT ![p] = "rollback_truncate"]
    /\ UNCHANGED <<repoVars, primary, bak, lockHolder, calls, crashed, timedOut, commits>>

\* f.seek(0); f.truncate()
CommitTruncate(p) ==
    /\ pc[p] = "commit_truncate"
    /\ primary' = Truncated
    /\ h' = Touch(p, TRUE)
    /\ pc' = [pc EXCEPT ![p] = "commit_write"]
    /\ UNCHANGED <<repoVars, bak, lockHolder, loc, calls, crashed, timedOut, ioRaised, commits>>

\* json.dump(data, f); f.flush(); return result (the with block closes f)
CommitWrite(p) ==
    /\ pc[p] = "commit_write"
    /\ primary' = WriteAt0(primary, Dump(CommitContent(p)))
    /\ lockHolder' = Closed(p)
    /\ commits' = IF loc[p].op = "add_message" THEN Append(commits, MsgOf(p)) ELSE commits
    /\ h' = Touch(p, TRUE)
    /\ pc' = [pc EXCEPT ![p] = "returned"]
    /\ UNCHANGED <<repoVars, bak, loc, calls, crashed, timedOut, ioRaised>>

\* except Exception: f.seek(0); f.truncate()
RollbackTruncate(p) ==
    /\ pc[p] = "rollback_truncate"
    /\ primary' = Truncated
    /\ h' = Touch(p, TRUE)
    /\ pc' = [pc EXCEPT ![p] = "rollback_write"]
    /\ UNCHANGED <<repoVars, bak, lockHolder, loc, calls, crashed, timedOut, ioRaised, commits>>

\* retry_count += 1, saturating: the code only compares it with max_retries.
Bumped(n) == IF n < max_retries THEN n + 1 ELSE n

\* json.dump(data_backup, f); raise.  The exception travels outwards:
\*   except BlockingIOError (inside the with block): count a retry and either
\*     loop again or raise IOError("Could not acquire file lock");
\*   the with block closes f, which writes the buffered rollback and drops the lock;
\*   except IOError (outside the with block): go and look at the backup;
\*   anything else reaches the caller.
RollbackWrite(p) ==
    /\ pc[p] = "rollback_write"
    /\ primary' = WriteAt0(primary, Dump(RollbackContent(p)))
    /\ lockHolder' = Closed(p)
    /\ h' = Touch(p, TRUE)
    /\ CASE loc[p].exc = "BlockingIOError" ->
              IF Bumped(loc[p].retry_count) >= max_retries
              THEN /\ loc' = [loc EXCEPT ![p].retry_count = Bumped(@),
                                         ![p].exc = "IOError"]
                   /\ pc' = [pc EXCEPT ![p] = "restore_check"]
              ELSE /\ loc' = [loc EXCEPT ![p].retry_count = Bumped(@),
                                         ![p].exc = "none",
                                         ![p].sleeps = 0,
                                         ![p].usedForce = FALSE]
                   /\ pc' = [pc EXCEPT ![p] = "acquire"]
         [] loc[p].exc = "OSError" ->
              /\ loc' = loc
              /\ pc' = [pc EXCEPT ![p] = "restore_check"]
         [] OTHER ->
              /\ loc' = loc
              /\ pc' = [pc EXCEPT ![p] = "raised"]
    /\ UNCHANGED <<repoVars, bak, calls, crashed, timedOut, ioRaised, commits>>

\* except IOError: if os.path.exists(backup_file): json.load(bf) ...; else raise
RestoreCheck(p) ==
    /\ pc[p] = "restore_check"
    /\ pc' = [pc EXCEPT ![p] =
                 IF bak # Missing /\ Parses(bak) THEN "restore_open" ELSE "raised"]
    /\ UNCHANGED <<repoVars, primary, bak, lockHolder, loc, calls, crashed, timedOut, ioRaised, commits, h>>

\* shutil.copy2(backup_file, state_file): the destination is opened "wb".
RestoreOpen(p) ==
    /\ pc[p] = "restore_open"
    /\ primary' = Truncated
    /\ h' = Touch(p, TRUE)
    /\ pc' = [pc EXCEPT ![p] = "restore_copy"]
    /\ UNCHANGED <<repoVars, bak, lockHolder, loc, calls, crashed, timedOut, ioRaised, commits>>

\* shutil.copy2(backup_file, state_file): the bytes are copied; continue.
RestoreCopy(p) ==
    /\ pc[p] = "restore_copy"
    /\ primary' = WriteAt0(primary, bak)
    /\ h' = [Touch(p, TRUE) EXCEPT ![p].restored = TRUE]
    /\ loc' = [loc EXCEPT ![p].exc = "none", ![p].sleeps = 0, ![p].usedForce = FALSE]
    /\ pc' = [pc EXCEPT ![p] = "acquire"]
    /\ UNCHANGED <<repoVars, bak, lockHolder, calls, crashed, timedOut, ioRaised, commits>>

\* The caller has its result or its exception.
Finish(p) ==
    /\ pc[p] \in {"returned", "raised"}
    /\ pc' = [pc EXCEPT ![p] = "idle"]
    /\ loc' = [loc EXCEPT ![p] = NoLocals]
    /\ h' = [h EXCEPT ![p] = NoHistory]
    /\ UNCHANGED <<repoVars, primary, bak, lockHolder, calls, crashed, timedOut, ioRaised, commits>>

InCall(p) == pc[p] \notin {"idle", "returned", "raised", "crashed"}

\* The process dies inside a call: the kernel closes its files (dropping its
\* lock); what it had not written yet is never written.
Crash(p) ==
    /\ InCall(p)
    /\ pc' = [pc EXCEPT ![p] = "crashed"]
    /\ lockHolder' = Closed(p)
    /\ crashed' = TRUE
    /\ loc' = [loc EXCEPT ![p] = NoLocals]
    /\ h' = [h EXCEPT ![p] = NoHistory]
    /\ UNCHANGED <<repoVars, primary, bak, calls, timedOut, ioRaised, commits>>

\* The steps of a live process inside a call.
Step(p) ==
    \/ BackupOpen(p) \/ BackupCopy(p)
    \/ Acquire(p) \/ Sleep(p) \/ Timeout(p)
    \/ LoadPrimary(p) \/ LoadBackup(p) \/ Apply(p)
    \/ CommitTruncate(p) \/ CommitWrite(p)
    \/ RollbackTruncate(p) \/ RollbackWrite(p)
    \/ RestoreCheck(p) \/ RestoreOpen(p) \/ RestoreCopy(p)
    \/ Finish(p)

Next == \E p \in Procs : Call(p) \/ Step(p) \/ Crash(p)

Spec == Init /\ [][Next]_vars

\* Every live process inside a call keeps being scheduled.
FairSpec == Spec /\ \A p \in Procs : WF_vars(Step(p))

\* ------------------------------------------------------------------ claims
\* Between the load of the state file and the end of the write-back.
InSection(p) ==
    pc[p] \in {"load", "load_backup", "apply", "commit_truncate", "commit_write",
               "rollback_truncate", "rollback_write"}

\* Between a truncate of the state file and the write that follows it.
Writing(p) == pc[p] \in {"commit_write", "rollback_write", "restore_copy"}

\* The messages held by a file that parses.
MessagesIn(f) == Load(f)[MsgKey]

\* C1: when a call whose callback raised (after mutating data) has raised to
\* its caller, the state file holds exactly what it held when the call loaded
\* it, provided it parsed then and no other process has written it since.
AtomicityOnFailure ==
    \A p \in Procs :
        (/\ pc[p] = "raised"
         /\ h[p].invocations >= 1
         /\ Parses(h[p].base)
         /\ ~h[p].dirty)
        => primary = h[p].base

\* C2: as long as no process has taken the lock-wait-timeout branch, at most
\* one process is between its load of the state file and the end of its
\* write-back.
MutualExclusion ==
    ~timedOut => Cardinality({p \in Procs : InSection(p)}) <= 1

\* C2 witness: one process is inside the section while another has polled the
\* lock in vain and sleeps.
ContendedSection ==
    /\ ~timedOut
    /\ \E p, q \in Procs :
          /\ InSection(p)
          /\ pc[q] = "acquire"
          /\ loc[q].sleeps >= 1

\* The runs C3 speaks of: every process got the lock without the timeout
\* branch, no process died, and the callbacks were repository operations or
\* failed like one (none raised an OS-class error).
LockedRun == ~timedOut /\ ~crashed /\ ~ioRaised

\* C3: in such runs every callback is applied to the document the previous
\* commit left, and the state file, whenever it is not being rewritten, holds
\* the entries of all committed transactions in commit order.
SerialOrder ==
    LockedRun =>
        /\ primary # Truncated => (Parses(primary) /\ MessagesIn(primary) = commits)
        /\ \A p \in Procs :
              pc[p] \in {"apply", "commit_truncate", "commit_write",
                         "rollback_truncate", "rollback_write"}
              => loc[p].data_backup[MsgKey] = commits

\* C3 witness: two add_message calls that overlapped have both returned and
\* both entries are in the state file.
BothMessagesStored ==
    /\ LockedRun
    /\ \A p \in Procs : pc[p] = "returned" /\ loc[p].op = "add_message"
    /\ \E p \in Procs : ~h[p].alone
    /\ Len(commits) = 2
    /\ Parses(primary)
    /\ MessagesIn(primary) = commits

\* C4: a process whose lock wait has exceeded the ceiling while another
\* process holds the lock goes on to load, and the lock stays with its holder.
TimeoutProceedsUnlocked ==
    [][\A p \in Procs :
          (/\ pc[p] = "acquire"
           /\ lockHolder \notin {NoProc, p}
           /\ loc[p].sleeps >= MaxSleeps
           /\ pc'[p] \notin {"acquire", "crashed"})
          => (pc'[p] = "load" /\ lockHolder' = lockHolder)]_vars

\* C4 witness: two add_message calls have both committed, one of them after a
\* lock-wait timeout, and the state file holds only one of the two entries.
LostUpdate ==
    /\ timedOut
    /\ ~crashed /\ ~ioRaised
    /\ \A p \in Procs : pc[p] = "returned" /\ loc[p].op = "add_message"
    /\ Len(commits) = 2
    /\ Parses(primary)
    /\ Len(MessagesIn(primary)) = 1

\* C5: a call of a callback that does not raise, begun while the state file is
\* unparsable and the .bak file holds a valid document, and not disturbed by
\* any other process, returns to its caller (it does not fail).
CorruptionRecovery ==
    \A p \in Procs :
        (/\ h[p].recoverable
         /\ h[p].alone
         /\ Raises(loc[p].op) = "none"
         /\ pc[p] \in {"returned", "raised"})
        => pc[p] = "returned"

\* C6: a dead process holds no lock, and a call begun after a process died,
\* not disturbed by any other process, never fails for want of a parsable
\* document.
CrashRecoverability ==
    /\ \A p \in Procs : pc[p] = "crashed" => lockHolder # p
    /\ \A p \in Procs :
          (/\ h[p].afterCrash
           /\ h[p].alone
           /\ ~timedOut /\ ~ioRaised
           /\ pc[p] = "raised")
          => loc[p].exc # "JSONDecodeError"

\* C7: a call whose callback raises invokes it once, and when the call has
\* raised to its caller it has released the lock and the exception is the one
\* the callback raised, whatever its class.
FailurePropagation ==
    \A p \in Procs :
        Raises(loc[p].op) # "none" =>
            /\ h[p].invocations <= 1
            /\ (pc[p] = "raised" /\ h[p].invocations >= 1) =>
                  (loc[p].exc = Raises(loc[p].op) /\ lockHolder # p)

\* C8: once _with_file_lock has returned or raised, the calling process does
\* not hold the lock.
LockReleased ==
    \A p \in Procs : pc[p] \in {"returned", "raised"} => lockHolder # p

\* C8 witness: one call has raised after a rollback under the lock, another
\* has returned after a commit on the timeout path.
ExitsAfterLockAndTimeout ==
    \E p, q \in Procs :
        /\ pc[p] = "raised" /\ loc[p].exc = "ValueError" /\ ~loc[p].usedForce
        /\ pc[q] = "returned" /\ loc[q].usedForce

\* C9: under fair scheduling every call of _with_file_lock comes to an end
\* (it returns, raises, or its process dies).
EveryCallEnds ==
    \A p \in Procs : InCall(p) ~> ~InCall(p)

\* C10: when no process has died, no callback has raised an OS-class error and
\* no process is between a truncate and its write, the state file parses as a
\* document with all six collections.
ValidWhenQuiescent ==
    (/\ ~crashed /\ ~ioRaised
     /\ \A p \in Procs : ~Writing(p))
    => (Parses(primary) /\ DOMAIN Load(primary) = KeySet)

\* ================================================== repository operations
\* Every repository operation hands one closure to _with_file_lock.  A call
\* that obtains the lock loads the document the previous commit left, runs the
\* closure on it and writes the result back before the lock is released
\* (MutualExclusion, SerialOrder), so each operation below is one atomic step
\* from the committed document to the next.

\* ------------------------------------------------------------- bounds
MaxOps == 4        \* repository operations in a run
MaxTime == 1       \* clock seconds that pass during a run

\* ------------------------------------------------------ program constants
MAX_AGENTS == 10   \* config.MAX_AGENTS

\* Python's None, where an agent name is expected, and where a task ID is.
None == "None"
NoTask == <<>>

\* config.AGENTS: the names of the static roster, in the order of the dict.
Roster == <<"team_lead", "agent1", "agent2", "agent3">>

\* Agent IDs callers register, in the order they first use them.
AgentPool == <<"a1", "a2", "a3", "a4", "a5", "a6", "a7", "a8", "a9", "a10", "a11">>

\* The inputs the callers draw from.
AgentIDs == {"a1", "a2"}
Senders == {"a1", "a2", "team_lead"}
Branches == {"main", "dev"}
Capabilities == {"python", "css"}
PRIDs == {"pr1"}
Statuses == {"active", "inactive"}
TaskStatuses == {"in-progress", "completed"}
Notes == {None, "note"}

\* A Python dict iterates in insertion order: a mapping is the sequence of its
\* items [k |-> key, v |-> value].
Has(m, key) == \E i \in 1..Len(m) : m[i].k = key
IndexOf(m, key) == CHOOSE i \in 1..Len(m) : m[i].k = key
Get(m, key) == m[IndexOf(m, key)].v

\* m[key] = value: an existing key keeps its place, a new key goes last.
Put(m, key, value) ==
    IF Has(m, key) THEN [m EXCEPT ![IndexOf(m, key)].v = value]
    ELSE Append(m, [k |-> key, v |-> value])

\* The elements of a sequence.
Range(s) == {s[i] : i \in 1..Len(s)}

\* [x for x in s if x != e]
Without(s, e) == LET Keep(x) == x # e IN SelectSeq(s, Keep)

\* list.remove(e): the first occurrence goes.
RemoveFirst(s, e) ==
    LET i == CHOOSE j \in 1..Len(s) : s[j] = e /\ \A l \in 1..(j - 1) : s[l] # e
    IN  SubSeq(s, 1, i - 1) \o SubSeq(s, i + 1, Len(s))

\* What a closure hands back: the document it leaves and its return value.
Out(d, r) == [data |-> d, ret |-> r]

\* ----------------------------------------------------------------- agents
\* The agent record register_agent stores.
NewAgent(capabilities) ==
    [status |-> "active", capabilities |-> capabilities,
     tasks_completed |-> 0, tasks_current |-> <<>>]

\* Mutant: the capacity test lets one more agent in.
CapacityOffByOne(d) == Len(d.agents) > MAX_AGENTS

\* len(data["agents"]) >= config.MAX_AGENTS
AtCapacity(d) == Len(d.agents) >= MAX_AGENTS

\* register_agent's closure.
register_agent(d, agent_id, capabilities) ==
    IF AtCapacity(d) THEN Out(d, FALSE)
    ELSE Out([d EXCEPT !.agents = Put(@, agent_id, NewAgent(capabilities))], TRUE)

\* Mutant: an unknown agent is stored instead of being reported.
update_agent_status_upsert(d, agent_id, status) ==
    Out([d EXCEPT !.agents =
            Put(@, agent_id, [NewAgent({}) EXCEPT !.status = status])], TRUE)

\* update_agent_status's closure.
update_agent_status(d, agent_id, status) ==
    IF ~Has(d.agents, agent_id) THEN Out(d, FALSE)
    ELSE Out([d EXCEPT !.agents =
                 Put(@, agent_id, [Get(@, agent_id) EXCEPT !.status = status])], TRUE)

\* ------------------------------------------------------------- scheduler
\* total_score of an agent as an exact fraction num/den (den > 0):
\* match_score * 0.7 + workload_score * 0.3, with match_score = 1 for no
\* requirement, else matches / len(required_set), and workload_score =
\* 1 / (current_tasks + 1).  For the requirement sets and workloads drawn
\* here the float comparison of the code orders the scores as the fractions do.
total_score(agent_info, required) ==
    LET matches == Cardinality(agent_info.capabilities \cap required)
        current_tasks == Len(agent_info.tasks_current)
    IN  IF required = {}
        THEN [num |-> 7 * (current_tasks + 1) + 3, den |-> 10 * (current_tasks + 1)]
        ELSE [num |-> 7 * matches * (current_tasks + 1) + 3 * Cardinality(required),
              den |-> 10 * Cardinality(required) * (current_tasks + 1)]

\* Mutant: a later agent with an equal score replaces the best one.
AtLeast(x, y) == x.num * y.den >= y.num * x.den

\* total_score > best_score
Greater(x, y) == x.num * y.den > y.num * x.den

\* The loop of find_best_agent_for_task over data["agents"].items(), from item i
\* on, with the best agent and score found so far.
RECURSIVE BestFrom(_, _, _, _, _)
BestFrom(agents, required, i, best_agent, best_score) ==
    IF i > Len(agents) THEN best_agent
    ELSE IF agents[i].v.status # "active"
         THEN BestFrom(agents, required, i + 1, best_agent, best_score)
         ELSE LET total == total_score(agents[i].v, required)
              IN  IF Greater(total, best_score)
                  THEN BestFrom(agents, required, i + 1, agents[i].k, total)
                  ELSE BestFrom(agents, required, i + 1, best_agent, best_score)

\* Mutant: the query marks the agent it picked as busy.
find_best_and_mark(d, required) ==
    LET best == BestFrom(d.agents, required, 1, None, [num |-> -1, den |-> 1])
    IN  IF best = None THEN Out(d, None)
        ELSE Out(update_agent_status(d, best, "busy").data, best)

\* find_best_agent_for_task's closure: best_agent = None, best_score = -1.
find_best_agent_for_task(d, required) ==
    Out(d, BestFrom(d.agents, required, 1, None, [num |-> -1, den |-> 1]))

\* ------------------------------------------------------------------ tasks
\* data["tasks"][branch], or the empty list add_task creates.
Bucket(d, branch) == IF Has(d.tasks, branch) THEN Get(d.tasks, branch) ELSE <<>>

\* f"task_{int(time.time())}_{len(data['tasks'][branch])}"
TaskIdOf(t, bucket) == <<"task", t, Len(bucket)>>

\* Mutant: every sub-task of a second gets the same ID.
SubtaskIdReused(t, u) == <<"subtask", t, 0>>

\* f"subtask_{int(time.time())}_{uuid.uuid4().hex[:8]}", f"msg_..." likewise:
\* u is the uuid drawn.
SubtaskIdOf(t, u) == <<"subtask", t, u>>
MsgIdOf(t, u) == <<"msg", t, u>>

\* Mutant: the assignee's list is written whether or not the agent is
\* registered.
AssignedAlways(d, assigned_to, task_id) ==
    IF assigned_to = None THEN d
    ELSE IF Has(d.agents, assigned_to)
    THEN [d EXCEPT !.agents =
             Put(@, assigned_to,
                 [Get(@, assigned_to) EXCEPT !.tasks_current = Append(@, task_id)])]
    ELSE [d EXCEPT !.agents =
             Put(@, assigned_to,
                 [capabilities |-> {}, status |-> "active", tasks_completed |-> 0,
                  tasks_current |-> <<task_id>>])]

\* data["agents"][assigned_to]["tasks_current"].append(task_id), when
\* assigned_to names a registered agent.
Assigned(d, assigned_to, task_id) ==
    IF assigned_to # None /\ Has(d.agents, assigned_to)
    THEN [d EXCEPT !.agents =
             Put(@, assigned_to,
                 [Get(@, assigned_to) EXCEPT !.tasks_current = Append(@, task_id)])]
    ELSE d

\* add_task's closure, run at clock second t.
add_task(d, branch, assigned_to, t) ==
    LET task_id == TaskIdOf(t, Bucket(d, branch))
        task == [id |-> task_id, assigned_to |-> assigned_to, status |-> "pending",
                 parent_id |-> NoTask, subtasks |-> <<>>, status_history |-> <<>>]
        stored == [d EXCEPT !.tasks = Put(@, branch, Append(Bucket(d, branch), task))]
    IN  Out(Assigned(stored, assigned_to, task_id), task_id)

\* The places <<b, i>> (bucket b of the mapping, position i in it) of the tasks
\* with this ID among the buckets bs.
PlacesOf(d, task_id, bs) ==
    UNION {{<<b, i>> : i \in {j \in 1..Len(d.tasks[b].v) : d.tasks[b].v[j].id = task_id}} :
           b \in bs}

\* The first of them in iteration order (the loops break at the first match).
FirstPlace(places) ==
    CHOOSE pl \in places :
        \A q \in places : pl[1] < q[1] \/ (pl[1] = q[1] /\ pl[2] <= q[2])

\* Mutant: the assignee is given the subtask before the parent is looked up.
create_subtask_eager(d, parent_task_id, assigned_to, t, u) ==
    IF PlacesOf(d, parent_task_id, 1..Len(d.tasks)) = {}
    THEN Out(Assigned(d, assigned_to, SubtaskIdOf(t, u)), NoTask)
    ELSE Out(d, SubtaskIdOf(t, u))

\* create_subtask's closure, run at clock second t with uuid u.
create_subtask(d, parent_task_id, assigned_to, t, u) ==
    LET places == PlacesOf(d, parent_task_id, 1..Len(d.tasks))
    IN  IF places = {} THEN Out(d, NoTask)
        ELSE LET pl == FirstPlace(places)
                 subtask_id == SubtaskIdOf(t, u)
                 subtask == [id |-> subtask_id, assigned_to |-> assigned_to,
                             status |-> "pending", parent_id |-> parent_task_id,
                             subtasks |-> <<>>, status_history |-> <<>>]
                 stored == [d EXCEPT !.tasks[pl[1]].v =
                               Append([@ EXCEPT ![pl[2]].subtasks = Append(@, subtask_id)],
                                      subtask)]
             IN  Out(Assigned(stored, assigned_to, subtask_id), subtask_id)

\* Mutant: the tasks whose parent is a removed child go as well.
delete_task_deep(d, task_id, branch) ==
    LET NotIt(task) == task.id # task_id
        scoped(item) == branch = None \/ item.k = branch
        first == [i \in 1..Len(d.tasks) |->
                    IF scoped(d.tasks[i])
                    THEN [d.tasks[i] EXCEPT !.v = SelectSeq(@, NotIt)]
                    ELSE d.tasks[i]]
        deleted == \E i \in 1..Len(d.tasks) : Len(first[i].v) < Len(d.tasks[i].v)
        children == {task.id : task \in {x \in UNION {Range(d.tasks[i].v) : i \in 1..Len(d.tasks)} :
                                            x.parent_id = task_id}}
        NotBelow(task) == task.parent_id # task_id /\ task.parent_id \notin children
        second == [i \in 1..Len(first) |-> [first[i] EXCEPT !.v = SelectSeq(@, NotBelow)]]
    IN  Out([d EXCEPT !.tasks = second], deleted)

\* delete_task's closure: the task goes from the given branch (or from every
\* branch), then every task whose parent_id is the ID goes from every branch.
delete_task(d, task_id, branch) ==
    LET NotIt(task) == task.id # task_id
        NotChild(task) == task.parent_id # task_id
        scoped(item) == branch = None \/ item.k = branch
        first == [i \in 1..Len(d.tasks) |->
                    IF scoped(d.tasks[i])
                    THEN [d.tasks[i] EXCEPT !.v = SelectSeq(@, NotIt)]
                    ELSE d.tasks[i]]
        deleted == \E i \in 1..Len(d.tasks) : Len(first[i].v) < Len(d.tasks[i].v)
        second == [i \in 1..Len(first) |-> [first[i] EXCEPT !.v = SelectSeq(@, NotChild)]]
    IN  Out([d EXCEPT !.tasks = second], deleted)

\* delete_all_tasks's closure: the bucket (or every bucket) becomes empty.
delete_all_tasks(d, branch) ==
    LET scoped(item) == branch = None \/ item.k = branch
        cleared == [i \in 1..Len(d.tasks) |->
                      IF scoped(d.tasks[i]) THEN [d.tasks[i] EXCEPT !.v = <<>>]
                      ELSE d.tasks[i]]
    IN  Out([d EXCEPT !.tasks = cleared], cleared # d.tasks)

\* Mutant: the counter grows only when the status changes to completed.
CompletesOnce(task, new_status) == new_status = "completed" /\ task.status # "completed"

\* new_status == "completed"
Completes(task, new_status) == new_status = "completed"

\* The agent-stats update of update_task_status for the task found.
Credited(d, task, task_id, new_status) ==
    IF Completes(task, new_status) /\ task.assigned_to # None
       /\ Has(d.agents, task.assigned_to)
    THEN LET agent == Get(d.agents, task.assigned_to)
         IN  [d EXCEPT !.agents =
                 Put(@, task.assigned_to,
                     [agent EXCEPT
                        !.tasks_completed = @ + 1,
                        !.tasks_current =
                            IF task_id \in Range(@) THEN RemoveFirst(@, task_id) ELSE @])]
    ELSE d

\* Mutant: the record replaces the history instead of joining it.
update_task_status_overwrite(d, task_id, new_status, branch, message, t) ==
    LET branches_to_check ==
            IF branch # None /\ Has(d.tasks, branch) THEN {IndexOf(d.tasks, branch)}
            ELSE 1..Len(d.tasks)
        places == PlacesOf(d, task_id, branches_to_check)
    IN  IF places = {} THEN Out(d, FALSE)
        ELSE LET pl == FirstPlace(places)
                 task == d.tasks[pl[1]].v[pl[2]]
                 entry == [status |-> new_status, message |-> message, timestamp |-> t]
                 updated == [d EXCEPT !.tasks[pl[1]].v[pl[2]] =
                                [@ EXCEPT !.status = new_status,
                                          !.status_history =
                                              IF message # None THEN <<entry>> ELSE @]]
             IN  Out(Credited(updated, task, task_id, new_status), TRUE)

\* update_task_status's closure: the buckets to check are the given branch if
\* it has a bucket, every bucket otherwise.
update_task_status(d, task_id, new_status, branch, message, t) ==
    LET branches_to_check ==
            IF branch # None /\ Has(d.tasks, branch) THEN {IndexOf(d.tasks, branch)}
            ELSE 1..Len(d.tasks)
        places == PlacesOf(d, task_id, branches_to_check)
    IN  IF places = {} THEN Out(d, FALSE)
        ELSE LET pl == FirstPlace(places)
                 task == d.tasks[pl[1]].v[pl[2]]
                 entry == [status |-> new_status, message |-> message, timestamp |-> t]
                 updated == [d EXCEPT !.tasks[pl[1]].v[pl[2]] =
                                [@ EXCEPT !.status = new_status,
                                          !.status_history =
                                              IF message # None THEN Append(@, entry)
                                              ELSE @]]
             IN  Out(Credited(updated, task, task_id, new_status), TRUE)

\* task.copy() with task_copy["branch"] = b.
Annotated(task, b) ==
    [x \in DOMAIN task \cup {"branch"} |-> IF x = "branch" THEN b ELSE task[x]]

\* The buckets get_tasks would search if it ignored its branch argument.
SearchedEverywhere(d, branch) == [i \in 1..Len(d.tasks) |-> d.tasks[i].k]

\* if branch: branches = [branch] if branch in data["tasks"] else []
\* else: branches = list(data["tasks"].keys())
Searched(d, branch) ==
    IF branch # None
    THEN IF Has(d.tasks, branch) THEN <<branch>> ELSE <<>>
    ELSE [i \in 1..Len(d.tasks) |-> d.tasks[i].k]

\* The tasks of bucket b that pass the three filters, each copied and annotated.
Matching(d, b, agent, status, parent_task_id) ==
    LET Passes(task) == /\ status = None \/ task.status = status
                        /\ agent = None \/ task.assigned_to = agent
                        /\ parent_task_id = NoTask \/ task.parent_id = parent_task_id
        kept == SelectSeq(Get(d.tasks, b), Passes)
    IN  [i \in 1..Len(kept) |-> Annotated(kept[i], b)]

\* for b in branches: for task in data["tasks"][b]: ... result.append(task_copy)
RECURSIVE Collected(_, _, _, _, _)
Collected(d, branches, agent, status, parent_task_id) ==
    IF branches = <<>> THEN <<>>
    ELSE Matching(d, Head(branches), agent, status, parent_task_id)
         \o Collected(d, Tail(branches), agent, status, parent_task_id)

\* get_tasks' closure: a query, the document is left as it was.  No filter on
\* the parent is NoTask.
get_tasks(d, agent, branch, status, parent_task_id) ==
    Out(d, Collected(d, Searched(d, branch), agent, status, parent_task_id))

\* --------------------------------------------------------------- messages
\* The message add_message and broadcast_message build.
NewMessage(msg_id, from_agent, to_agent, channel, timestamp) ==
    [id |-> msg_id, sender |-> from_agent, receiver |-> to_agent,
     content |-> "content", channel |-> channel, priority |-> "normal",
     timestamp |-> timestamp, read |-> FALSE]

\* add_message's closure, run at clock second t with uuid u.
add_message(d, from_agent, to_agent, t, u) ==
    Out([d EXCEPT !.messages =
            Append(@, NewMessage(MsgIdOf(t, u), from_agent, to_agent, "direct", t))],
        MsgIdOf(t, u))

\* Mutant: the sender is not left out.
ActiveAll(d, from_agent) ==
    LET Picked(item) == item.v.status = "active"
        items == SelectSeq(d.agents, Picked)
    IN  [i \in 1..Len(items) |-> items[i].k]

\* The active agents other than the sender, in the order of data["agents"].
ActiveOthers(d, from_agent) ==
    LET Picked(item) == item.k # from_agent /\ item.v.status = "active"
        items == SelectSeq(d.agents, Picked)
    IN  [i \in 1..Len(items) |-> items[i].k]

\* The names of config.AGENTS other than the sender.
RosterOthers(from_agent) == Without(Roster, from_agent)

\* The receivers of a broadcast: the active agents other than the sender, or
\* ("if not agents") the roster when there is none.
Receivers(d, from_agent) ==
    IF ActiveOthers(d, from_agent) # <<>> THEN ActiveOthers(d, from_agent)
    ELSE RosterOthers(from_agent)

\* broadcast_message's closure, run at clock second t; the uuids drawn are
\* u + 1, u + 2, ...; the timestamp is read once, before the loop.
broadcast_message(d, from_agent, t, u) ==
    LET agents == Receivers(d, from_agent)
        timestamp == t
        sent == [i \in 1..Len(agents) |->
                    NewMessage(MsgIdOf(t, u + i), from_agent, agents[i], "broadcast",
                               timestamp)]
    IN  Out([d EXCEPT !.messages = @ \o sent], [i \in 1..Len(sent) |-> sent[i].id])

\* Mutant: the flag of the first message with the ID is flipped.
mark_message_read_toggle(d, message_id) ==
    LET hits == {i \in 1..Len(d.messages) : d.messages[i].id = message_id}
    IN  IF hits = {} THEN Out(d, FALSE)
        ELSE LET i == CHOOSE j \in hits : \A l \in hits : j <= l
             IN  Out([d EXCEPT !.messages[i].read = ~@], TRUE)

\* mark_message_read's closure: the first message with the ID is marked.
mark_message_read(d, message_id) ==
    LET hits == {i \in 1..Len(d.messages) : d.messages[i].id = message_id}
    IN  IF hits = {} THEN Out(d, FALSE)
        ELSE LET i == CHOOSE j \in hits : \A l \in hits : j <= l
             IN  Out([d EXCEPT !.messages[i].read = TRUE], TRUE)

\* --------------------------------------------------------------- branches
\* Mutant: an existing branch is registered over.
register_branch_overwrite(d, branch_name, description, owner, t) ==
    Out([d EXCEPT !.branches =
            Put(@, branch_name, [description |-> description, owner |-> owner,
                                 created_at |-> t, status |-> "active"])],
        ~Has(d.branches, branch_name))

\* register_branch's closure, run at clock second t.
register_branch(d, branch_name, description, owner, t) ==
    IF ~Has(d.branches, branch_name)
    THEN Out([d EXCEPT !.branches =
                 Put(@, branch_name, [description |-> description, owner |-> owner,
                                      created_at |-> t, status |-> "active"])],
             TRUE)
    ELSE Out(d, FALSE)

\* ---------------------------------------------------------- pull requests
\* Mutant: an existing pull request is replaced by a fresh one.
create_pull_request_reset(d, pr_id, author, t) ==
    Out([d EXCEPT !.pull_requests =
            Put(@, pr_id, [author |-> author, status |-> "open", created_at |-> t,
                           updated_at |-> t, comments |-> <<>>, approvals |-> <<>>])],
        ~Has(d.pull_requests, pr_id))

\* create_pull_request's closure, run at clock second t.  Title, description
\* and the two branch names are stored as passed, like the author.
create_pull_request(d, pr_id, author, t) ==
    IF Has(d.pull_requests, pr_id) THEN Out(d, FALSE)
    ELSE Out([d EXCEPT !.pull_requests =
                 Put(@, pr_id, [author |-> author, status |-> "open", created_at |-> t,
                                updated_at |-> t, comments |-> <<>>, approvals |-> <<>>])],
             TRUE)

\* Mutant: no approval counts as given already.
NeverApproved(pr, author) == FALSE

\* approval["author"] in [a["author"] for a in pr["approvals"]]
AlreadyApproved(pr, author) ==
    \E i \in 1..Len(pr.approvals) : pr.approvals[i].author = author

\* update_pull_request's closure, run at clock second t: status, comment and
\* approval are None or given; a comment and an approval are passed as their
\* author and stored with the time.
update_pull_request(d, pr_id, status, comment, approval, t) ==
    IF ~Has(d.pull_requests, pr_id) THEN Out(d, FALSE)
    ELSE LET pr == Get(d.pull_requests, pr_id)
             entry(author) == [author |-> author, timestamp |-> t]
             changed == [pr EXCEPT
                           !.updated_at = t,
                           !.status = IF status # None THEN status ELSE @,
                           !.comments = IF comment # None
                                        THEN Append(@, entry(comment)) ELSE @,
                           !.approvals = IF approval # None /\ ~AlreadyApproved(pr, approval)
                                         THEN Append(@, entry(approval)) ELSE @]
         IN  Out([d EXCEPT !.pull_requests = Put(@, pr_id, changed)], TRUE)

\* -------------------------------------------------------- reasoning logs
\* f"log_{int(time.time())}_{agent}"
LogIdOf(t, agent) == <<"log", t, agent>>

\* str.split(","): a string is its sequence of tokens, "," the separator; the
\* pieces between separators, empty ones included.
RECURSIVE Split(_, _)
Split(tags, piece) ==
    IF tags = <<>> THEN <<piece>>
    ELSE IF Head(tags) = "," THEN <<piece>> \o Split(Tail(tags), <<>>)
    ELSE Split(Tail(tags), Append(piece, Head(tags)))

\* log_reasoning's closure, run at clock second t.  tags is <<>> for None and
\* for the empty string: tags.split(",") if tags else [].
log_reasoning(d, agent, task_id, reasoning, tags, t) ==
    LET log_id == LogIdOf(t, agent)
        log_entry == [id |-> log_id, agent |-> agent, task_id |-> task_id,
                      reasoning |-> reasoning,
                      tags |-> IF tags # <<>> THEN Split(tags, <<>>) ELSE <<>>,
                      timestamp |-> t]
    IN  Out([d EXCEPT !.reasoning_logs = Put(@, log_id, log_entry)], log_id)

\* ---------------------------------------------------------------- actions
\* One call of a repository operation: the executor commits what the closure
\* left and the caller gets its return value; drawn uuids are used up.
Transact(op, args, out, drawn) ==
    /\ opsLeft > 0
    /\ opsLeft' = opsLeft - 1
    /\ data' = out.data
    /\ uuids' = uuids + drawn
    /\ last' = [op |-> op, args |-> args, ret |-> out.ret, before |-> data]
    /\ asked' = IF out.data # data THEN <<>>
                ELSE IF op = "find_best_agent_for_task"
                     THEN Append(asked, [required |-> args.required, ret |-> out.ret])
                     ELSE asked
    /\ UNCHANGED <<execVars, now>>

\* The clock reaches the next second.
Tick ==
    /\ now < MaxTime
    /\ now' = now + 1
    /\ UNCHANGED <<execVars, data, uuids, opsLeft, last, issued, asked>>

RegisterAgent(agent_id, capabilities) ==
    /\ Transact("register_agent", [agent_id |-> agent_id],
                register_agent(data, agent_id, capabilities), 0)
    /\ UNCHANGED issued

UpdateAgentStatus(agent_id, status) ==
    /\ Transact("update_agent_status", [agent_id |-> agent_id, status |-> status],
                update_agent_status(data, agent_id, status), 0)
    /\ UNCHANGED issued

FindBestAgentForTask(required) ==
    /\ Transact("find_best_agent_for_task", [required |-> required],
                find_best_agent_for_task(data, required), 0)
    /\ UNCHANGED issued

AddTask(branch, assigned_to) ==
    /\ Transact("add_task", [branch |-> branch, assigned_to |-> assigned_to],
                add_task(data, branch, assigned_to, now), 0)
    /\ issued' = Append(issued, add_task(data, branch, assigned_to, now).ret)

CreateSubtask(parent_task_id, assigned_to) ==
    /\ Transact("create_subtask",
                [parent_task_id |-> parent_task_id, assigned_to |-> assigned_to],
                create_subtask(data, parent_task_id, assigned_to, now, uuids + 1),
                IF create_subtask(data, parent_task_id, assigned_to, now, uuids + 1).ret
                       = NoTask
                THEN 0 ELSE 1)
    /\ UNCHANGED issued

DeleteTask(task_id, branch) ==
    /\ Transact("delete_task", [task_id |-> task_id, branch |-> branch],
                delete_task(data, task_id, branch), 0)
    /\ UNCHANGED issued

DeleteAllTasks(branch) ==
    /\ Transact("delete_all_tasks", [branch |-> branch],
                delete_all_tasks(data, branch), 0)
    /\ UNCHANGED issued

UpdateTaskStatus(task_id, new_status, branch, message) ==
    /\ Transact("update_task_status",
                [task_id |-> task_id, new_status |-> new_status, branch |-> branch,
                 message |-> message],
                update_task_status(data, task_id, new_status, branch, message, now), 0)
    /\ UNCHANGED issued

GetTasks(agent, branch, status, parent_task_id) ==
    /\ Transact("get_tasks",
                [agent |-> agent, branch |-> branch, status |-> status,
                 parent_task_id |-> parent_task_id],
                get_tasks(data, agent, branch, status, parent_task_id), 0)
    /\ UNCHANGED issued

AddMessage(from_agent, to_agent) ==
    /\ Transact("add_message", [from_agent |-> from_agent, to_agent |-> to_agent],
                add_message(data, from_agent, to_agent, now, uuids + 1), 1)
    /\ UNCHANGED issued

BroadcastMessage(from_agent) ==
    /\ Transact("broadcast_message", [from_agent |-> from_agent],
                broadcast_message(data, from_agent, now, uuids),
                Len(Receivers(data, from_agent)))
    /\ UNCHANGED issued

MarkMessageRead(message_id) ==
    /\ Transact("mark_message_read", [message_id |-> message_id],
                mark_message_read(data, message_id), 0)
    /\ UNCHANGED issued

RegisterBranch(branch_name, description, owner) ==
    /\ Transact("register_branch",
                [branch_name |-> branch_name, description |-> description,
                 owner |-> owner],
                register_branch(data, branch_name, description, owner, now), 0)
    /\ UNCHANGED issued

CreatePullRequest(pr_id, author) ==
    /\ Transact("create_pull_request", [pr_id |-> pr_id, author |-> author],
                create_pull_request(data, pr_id, author, now), 0)
    /\ UNCHANGED issued

UpdatePullRequest(pr_id, status, comment, approval) ==
    /\ Transact("update_pull_request",
                [pr_id |-> pr_id, status |-> status, comment |-> comment,
                 approval |-> approval],
                update_pull_request(data, pr_id, status, comment, approval, now), 0)
    /\ UNCHANGED issued

LogReasoning(agent, task_id, reasoning, tags) ==
    /\ Transact("log_reasoning",
                [agent |-> agent, task_id |-> task_id, reasoning |-> reasoning,
                 tags |-> tags],
                log_reasoning(data, agent, task_id, reasoning, tags, now), 0)
    /\ UNCHANGED issued

\* ----------------------------------------------------- what callers pass
\* An ID no operation has produced.
UnknownTask == <<"task", -1, 0>>
UnknownMessage == <<"msg", -1, 0>>

\* Every task stored in the document d.
AllTasks(d) == UNION {Range(d.tasks[b].v) : b \in 1..Len(d.tasks)}

\* The task IDs a caller can hold: stored ones, ones add_task returned, ones
\* left in an agent's tasks_current; and one that never existed.
TaskIDs ==
    {task.id : task \in AllTasks(data)} \cup Range(issued)
    \cup UNION {Range(data.agents[i].v.tasks_current) : i \in 1..Len(data.agents)}
    \cup {UnknownTask}

\* The message IDs a caller can hold, and one that never existed.
MessageIDs == {data.messages[i].id : i \in 1..Len(data.messages)} \cup {UnknownMessage}

\* The registered agent IDs and the first unused one of the pool.
Registrable ==
    {AgentPool[i] : i \in {j \in 1..Len(AgentPool) : j <= Len(data.agents) + 1}}

\* -------------------------------------------------------- specifications
\* A store holding document d and callers that make n repository operations.
StoreInit(d, n) ==
    /\ ExecInit
    /\ data = d
    /\ now = 0
    /\ uuids = 0
    /\ opsLeft = n
    /\ last = NoCall
    /\ issued = <<>>
    /\ asked = <<>>

\* A fresh store.
RepoInit(n) == StoreInit(initial_state, n)

\* Agents and tasks.
TaskInit == RepoInit(MaxOps)

TaskNext ==
    \/ Tick
    \/ \E a \in AgentIDs : RegisterAgent(a, {"python"})
    \/ \E a \in AgentIDs \cup {"ghost"}, st \in Statuses : UpdateAgentStatus(a, st)
    \/ \E b \in Branches, a \in AgentIDs \cup {None} : AddTask(b, a)
    \/ \E id \in TaskIDs, a \in {"a1", None} : CreateSubtask(id, a)
    \/ \E id \in TaskIDs, b \in Branches \cup {None} : DeleteTask(id, b)
    \/ \E b \in Branches \cup {None} : DeleteAllTasks(b)
    \/ \E id \in TaskIDs, st \in TaskStatuses, b \in Branches \cup {None}, m \in Notes :
          UpdateTaskStatus(id, st, b, m)

TaskSpec == TaskInit /\ [][TaskNext]_vars

\* ------------------------------------------------------------------ claims
\* The places <<b, i>> of all tasks stored in the document d.
Places(d) == UNION {{<<b, i>> : i \in 1..Len(d.tasks[b].v)} : b \in 1..Len(d.tasks)}
TaskAt(d, pl) == d.tasks[pl[1]].v[pl[2]]

\* C11: the task IDs add_task has returned are pairwise distinct, and no task
\* ID is stored twice in the document (in one bucket or in two).
TaskIdUniqueness ==
    /\ \A i, j \in 1..Len(issued) : i # j => issued[i] # issued[j]
    /\ \A pl, q \in Places(data) : pl # q => TaskAt(data, pl).id # TaskAt(data, q).id

\* How often e occurs in the sequence s.
Count(s, e) == Cardinality({i \in 1..Len(s) : s[i] = e})

\* The task an update_task_status call with these arguments finds in d.
Addressed(d, args) ==
    PlacesOf(d, args.task_id,
             IF args.branch # None /\ Has(d.tasks, args.branch)
             THEN {IndexOf(d.tasks, args.branch)} ELSE 1..Len(d.tasks))

\* The last operation was update_task_status(task, "completed") and found the
\* task, which is assigned to a registered agent.
CompletedAssigned ==
    /\ last.op = "update_task_status"
    /\ last.args.new_status = "completed"
    /\ last.ret
    /\ LET task == TaskAt(last.before, FirstPlace(Addressed(last.before, last.args)))
       IN  task.assigned_to # None /\ Has(last.before.agents, task.assigned_to)

\* C12: update_task_status(task, "completed") on a task assigned to a registered
\* agent adds exactly 1 to the agent's tasks_completed and takes the task ID out
\* of its tasks_current; called on a task that is completed already it changes
\* neither.
CompletionCountedOnce ==
    CompletedAssigned =>
        LET task == TaskAt(last.before, FirstPlace(Addressed(last.before, last.args)))
            was == Get(last.before.agents, task.assigned_to)
            is == Get(data.agents, task.assigned_to)
        IN  IF task.status # "completed"
            THEN /\ is.tasks_completed = was.tasks_completed + 1
                 /\ Count(is.tasks_current, task.id) =
                        IF task.id \in Range(was.tasks_current)
                        THEN Count(was.tasks_current, task.id) - 1 ELSE 0
            ELSE /\ is.tasks_completed = was.tasks_completed
                 /\ is.tasks_current = was.tasks_current

\* Callers that only register agents: enough calls to fill the store and be
\* turned away, each with a registered ID or the next unused one.
CapacityInit == RepoInit(MAX_AGENTS + 2)

CapacityNext ==
    \E a \in Registrable : RegisterAgent(a, {"python"})

CapacitySpec == CapacityInit /\ [][CapacityNext]_vars

\* C13: a register_agent call that finds MAX_AGENTS or more agents stored
\* returns False and leaves the document unchanged, and the number of stored
\* agents never exceeds MAX_AGENTS.
AgentCapacity ==
    /\ Len(data.agents) <= MAX_AGENTS
    /\ (last.op = "register_agent" /\ Len(last.before.agents) >= MAX_AGENTS) =>
           (~last.ret /\ data = last.before)

\* A registration was turned away by a full store.
TurnedAway ==
    /\ last.op = "register_agent"
    /\ ~last.ret
    /\ Len(data.agents) = MAX_AGENTS
    /\ last.args.agent_id \notin {data.agents[i].k : i \in 1..Len(data.agents)}

\* C14: an agent's tasks_completed never decreases from one committed document
\* to the next, whatever the operation (re-registration included).
CompletedMonotonic ==
    [][\A i \in 1..Len(data.agents) :
          \A j \in 1..Len(data'.agents) :
              data.agents[i].k = data'.agents[j].k =>
                  data.agents[i].v.tasks_completed <= data'.agents[j].v.tasks_completed]_vars

\* -------------------------------------------------------------- scheduler
MaxStored == 2     \* agents stored when the scheduler is asked
MaxLoad == 2       \* tasks assigned to one agent

\* The store after add_task('main', ..., assigned_to = agent_id) was called n
\* times.
RECURSIVE Loaded(_, _, _)
Loaded(d, agent_id, n) ==
    IF n = 0 THEN d ELSE Loaded(add_task(d, "main", agent_id, 0).data, agent_id, n - 1)

\* The store after the agents of staff (capabilities, status, load each) were
\* registered one after the other, given their tasks and their status.
RECURSIVE Staffed(_, _, _)
Staffed(d, staff, i) ==
    IF i > Len(staff) THEN d
    ELSE LET registered == register_agent(d, AgentPool[i], staff[i].capabilities).data
             loaded == Loaded(registered, AgentPool[i], staff[i].load)
         IN  Staffed(update_agent_status(loaded, AgentPool[i], staff[i].status).data,
                     staff, i + 1)

\* The scheduler is asked twice about a store holding up to MaxStored agents.
SchedInit ==
    \E n \in 0..MaxStored :
        \E staff \in [1..n -> [capabilities : SUBSET Capabilities, status : Statuses,
                               load : 0..MaxLoad]] :
            StoreInit(Staffed(initial_state, staff, 1), 2)

SchedNext ==
    \E required \in SUBSET Capabilities : FindBestAgentForTask(required)

SchedSpec == SchedInit /\ [][SchedNext]_vars

\* The total the claim states, as a fraction: 0.7 * match + 0.3 / (1 + |tasks_current|)
\* with match = 1 for no requirement, else |capabilities \cap required| / |required|.
ClaimedTotal(agent, required) ==
    LET match == IF required = {} THEN [num |-> 1, den |-> 1]
                 ELSE [num |-> Cardinality(agent.capabilities \cap required),
                       den |-> Cardinality(required)]
        load == Len(agent.tasks_current)
    IN  [num |-> 7 * match.num * (1 + load) + 3 * match.den,
         den |-> 10 * match.den * (1 + load)]

\* The positions of the active agents of d.
ActiveAt(d) == {i \in 1..Len(d.agents) : d.agents[i].v.status = "active"}

\* Agent i of d is the first of the active agents with the greatest total.
FirstBest(d, required, i) ==
    /\ i \in ActiveAt(d)
    /\ \A j \in ActiveAt(d) :
          LET mine == ClaimedTotal(d.agents[i].v, required)
              theirs == ClaimedTotal(d.agents[j].v, required)
          IN  /\ theirs.num * mine.den <= mine.num * theirs.den
              /\ theirs.num * mine.den = mine.num * theirs.den => i <= j

\* C15: find_best_agent_for_task returns None exactly when no agent is active;
\* otherwise it returns the first, in the order of the agents mapping, of the
\* active agents whose total is greatest; never an inactive agent.
SchedulerSelection ==
    last.op = "find_best_agent_for_task" =>
        IF ActiveAt(last.before) = {} THEN last.ret = None
        ELSE \E i \in ActiveAt(last.before) :
                /\ last.ret = last.before.agents[i].k
                /\ FirstBest(last.before, last.args.required, i)

\* Two active agents tie with the greatest total and the first one is returned.
TieGoesToFirst ==
    /\ last.op = "find_best_agent_for_task"
    /\ Len(data.agents) = 2
    /\ ActiveAt(data) = {1, 2}
    /\ ClaimedTotal(data.agents[1].v, last.args.required) =
           ClaimedTotal(data.agents[2].v, last.args.required)
    /\ last.ret = data.agents[1].k

MessageInit == RepoInit(MaxOps + 1)

MessageNext ==
    \/ \E a \in {"a1", "a2", "a3"} : RegisterAgent(a, {"python"})
    \/ \E a \in {"a2", "a3"} : UpdateAgentStatus(a, "inactive")
    \/ \E from_agent \in Senders : BroadcastMessage(from_agent)
    \/ AddMessage("a1", "a2")
    \/ \E id \in MessageIDs : MarkMessageRead(id)

MessageSpec == MessageInit /\ [][MessageNext]_vars

\* The messages the last operation appended.
Sent(d) == SubSeq(data.messages, Len(d.messages) + 1, Len(data.messages))

\* The registered agents of d that are active, other than agent S.
ActiveBut(d, S) == {d.agents[i].k : i \in ActiveAt(d)} \ {S}

\* C17: with at least one registered active agent other than the sender S,
\* broadcast_message appends exactly one message per such agent and returns
\* their IDs; none is addressed to S or to an inactive agent, all have channel
\* broadcast, read = false and one timestamp.
BroadcastFanOut ==
    (last.op = "broadcast_message"
     /\ ActiveBut(last.before, last.args.from_agent) # {}) =>
        LET S == last.args.from_agent
            targets == ActiveBut(last.before, S)
            sent == Sent(last.before)
        IN  /\ SubSeq(data.messages, 1, Len(last.before.messages)) = last.before.messages
            /\ Len(sent) = Cardinality(targets)
            /\ {sent[i].receiver : i \in 1..Len(sent)} = targets
            /\ \A i \in 1..Len(sent) :
                  /\ sent[i].sender = S
                  /\ sent[i].receiver # S
                  /\ sent[i].channel = "broadcast"
                  /\ ~sent[i].read
                  /\ sent[i].timestamp = sent[1].timestamp
            /\ last.ret = [i \in 1..Len(sent) |-> sent[i].id]

\* A registered active sender broadcast to one active agent while a third
\* agent was inactive.
FannedOut ==
    /\ last.op = "broadcast_message"
    /\ Len(last.before.agents) = 3
    /\ Cardinality(ActiveAt(last.before)) = 2
    /\ last.args.from_agent \in {last.before.agents[i].k : i \in ActiveAt(last.before)}
    /\ Len(last.ret) = 1

\* C18: with at least one agent registered, every message broadcast_message
\* creates is addressed to a registered active agent other than the sender
\* (the roster is used only when no agent is registered).
RosterOnlyWhenEmpty ==
    (last.op = "broadcast_message" /\ Len(last.before.agents) > 0) =>
        \A i \in 1..Len(Sent(last.before)) :
            Sent(last.before)[i].receiver \in ActiveBut(last.before, last.args.from_agent)

\* ---------------------------------------------------------------- lookups
\* Operations that look an entity up by its ID, and those that create the
\* entities.
LookupInit == RepoInit(MaxOps)

LookupNext ==
    \/ RegisterAgent("a1", {"python"})
    \/ \E a \in {"a1", "ghost"} : UpdateAgentStatus(a, "inactive")
    \/ \E b \in Branches : AddTask(b, "a1")
    \/ \E id \in TaskIDs : CreateSubtask(id, "a1")
    \/ \E id \in TaskIDs, b \in Branches \cup {None} :
          UpdateTaskStatus(id, "completed", b, "note")
    \/ AddMessage("a1", "a2")
    \/ \E id \in MessageIDs : MarkMessageRead(id)
    \/ \E pr \in PRIDs : CreatePullRequest(pr, "a1")
    \/ \E pr \in PRIDs \cup {"pr0"}, st \in {None, "merged"}, by \in {None, "a1"} :
          UpdatePullRequest(pr, st, by, by)

LookupSpec == LookupInit /\ [][LookupNext]_vars

\* The IDs of the tasks stored in d.
StoredTaskIDs(d) == {task.id : task \in AllTasks(d)}

\* C19: create_subtask with a parent ID that matches no stored task returns
\* None and leaves the document as it was.
UnknownParentIsNoOp ==
    (last.op = "create_subtask"
     /\ last.args.parent_task_id \notin StoredTaskIDs(last.before)) =>
        (last.ret = NoTask /\ data = last.before)

\* create_subtask was called with an unknown parent, for a registered assignee,
\* on a store that holds tasks.
OrphanRefused ==
    /\ last.op = "create_subtask"
    /\ last.args.parent_task_id \notin StoredTaskIDs(last.before)
    /\ StoredTaskIDs(last.before) # {}
    /\ Has(last.before.agents, last.args.assigned_to)
    /\ last.ret = NoTask

\* The last operation looked up an ID that the document did not hold.
LookupMissed ==
    \/ /\ last.op = "update_agent_status"
       /\ ~Has(last.before.agents, last.args.agent_id)
    \/ /\ last.op = "update_task_status"
       /\ last.args.task_id \notin StoredTaskIDs(last.before)
    \/ /\ last.op = "mark_message_read"
       /\ \A i \in 1..Len(last.before.messages) :
             last.before.messages[i].id # last.args.message_id
    \/ /\ last.op = "update_pull_request"
       /\ ~Has(last.before.pull_requests, last.args.pr_id)

\* C20: update_agent_status, update_task_status, mark_message_read and
\* update_pull_request called with an ID the document does not hold return
\* False (they do not raise) and leave the document unchanged.
NotFoundIsFalse ==
    LookupMissed => (last.ret = FALSE /\ data = last.before)

\* An unknown agent was looked up in a store that holds agents, tasks and
\* messages.
MissedAmongMany ==
    /\ LookupMissed
    /\ last.op = "update_agent_status"
    /\ last.before.agents # <<>>
    /\ last.before.tasks # <<>>
    /\ last.before.messages # <<>>

\* ---------------------------------------------------------------- branches
\* Tasks, sub-tasks and the task query.
QueryInit == RepoInit(MaxOps)

QueryNext ==
    \/ Tick
    \/ \E b \in Branches, a \in {"a1", None} : AddTask(b, a)
    \/ \E id \in TaskIDs : CreateSubtask(id, None)
    \/ \E b \in Branches \cup {"qa", None}, st \in {None, "pending"},
          parent \in {NoTask} \cup Range(issued) :
          GetTasks(None, b, st, parent)

QuerySpec == QueryInit /\ [][QueryNext]_vars

\* The result entry r is task with the branch annotation added.
CopyOf(r, task) == \A f \in DOMAIN task : r[f] = task[f]

\* C21: get_tasks(branch=B) returns only tasks stored in bucket B, each
\* annotated with branch = B; with no filter but the branch it returns the
\* whole bucket in order; a branch that has no bucket yields the empty list;
\* the document is left as it was.
BranchIsolation ==
    (last.op = "get_tasks" /\ last.args.branch # None) =>
        LET B == last.args.branch
            bucket == Bucket(last.before, B)
        IN  /\ data = last.before
            /\ \A i \in 1..Len(last.ret) :
                  /\ last.ret[i].branch = B
                  /\ \E j \in 1..Len(bucket) : CopyOf(last.ret[i], bucket[j])
            /\ (last.args.status = None /\ last.args.parent_task_id = NoTask) =>
                  /\ Len(last.ret) = Len(bucket)
                  /\ \A i \in 1..Len(bucket) : CopyOf(last.ret[i], bucket[i])
            /\ ~Has(last.before.tasks, B) => last.ret = <<>>

\* Both branches hold tasks, dev holds a parent and its sub-task, and the
\* query for dev returned exactly those two.
BranchFiltered ==
    /\ last.op = "get_tasks"
    /\ last.args.branch = "dev"
    /\ last.args.status = None
    /\ last.args.parent_task_id = NoTask
    /\ Len(Bucket(data, "main")) >= 1
    /\ Len(last.ret) = 2
    /\ \E i \in 1..2 : last.ret[i].parent_id # NoTask

\* ------------------------------------------------------- stored messages
\* Message i of the document d, its read flag left aside.
Unread(msg) == [msg EXCEPT !.read = FALSE]

\* C22: a stored message is never deleted: it keeps its place in the messages
\* sequence with id, sender, receiver, content, channel, priority and
\* timestamp unchanged, and its read flag only ever goes from False to True.
MessagesKept ==
    [][\A i \in 1..Len(data.messages) :
          /\ i <= Len(data'.messages)
          /\ Unread(data'.messages[i]) = Unread(data.messages[i])
          /\ data.messages[i].read => data'.messages[i].read]_vars

\* A message already read has been marked read again, with other messages
\* stored behind it.
ReadAgain ==
    /\ last.op = "mark_message_read"
    /\ last.ret
    /\ \E i \in 1..Len(data.messages) :
          /\ data.messages[i].id = last.args.message_id
          /\ last.before.messages[i].read
          /\ data.messages[i].read
          /\ i < Len(data.messages)

\* -------------------------------------------------------- reasoning logs
\* What callers pass to log_reasoning: a task ID (never looked up), a text,
\* and None or a comma-separated string of tags.
LogTasks == {<<"task", 0, 0>>}
Reasonings == {"first", "second"}
TagStrings == {<<>>, <<"x", ",", "y">>}

LogInit == RepoInit(MaxOps)

LogNext ==
    \/ Tick
    \/ \E a \in AgentIDs, id \in LogTasks, r \in Reasonings, tags \in TagStrings :
          LogReasoning(a, id, r, tags)

LogSpec == LogInit /\ [][LogNext]_vars

\* C23: every log_reasoning call adds one new entry to the stored reasoning
\* logs, two calls by the same agent within the same clock second included,
\* and leaves every entry stored before as it was; so the number of stored
\* logs equals the number of calls made.
LogsAppendOnly ==
    last.op = "log_reasoning" =>
        /\ Len(data.reasoning_logs) = Len(last.before.reasoning_logs) + 1
        /\ \A i \in 1..Len(last.before.reasoning_logs) :
              data.reasoning_logs[i] = last.before.reasoning_logs[i]

\* ------------------------------------------------------- branch registry
\* What callers pass as a branch's description.
Descriptions == {"first", "second"}

\* Branches are registered while tasks are added.
BranchInit == RepoInit(MaxOps)

BranchNext ==
    \/ Tick
    \/ \E b \in Branches, text \in Descriptions, owner \in AgentIDs :
          RegisterBranch(b, text, owner)
    \/ AddTask("main", None)

BranchSpec == BranchInit /\ [][BranchNext]_vars

\* The collections of the document other than key are as before the last
\* operation, and so are the entries collection key held.
OnlyAdded(key) ==
    /\ \A k \in KeySet \ {key} : data[k] = last.before[k]
    /\ Len(data[key]) = Len(last.before[key]) + 1
    /\ \A i \in 1..Len(last.before[key]) : data[key][i] = last.before[key][i]

\* C24: the first register_branch for a name returns True and stores the
\* branch; every later register_branch with that name returns False and leaves
\* the stored branch and the rest of the document unchanged.
RegisterBranchOnce ==
    last.op = "register_branch" =>
        IF Has(last.before.branches, last.args.branch_name)
        THEN last.ret = FALSE /\ data = last.before
        ELSE /\ last.ret = TRUE
             /\ OnlyAdded("branches")
             /\ Has(data.branches, last.args.branch_name)
             /\ LET stored == Get(data.branches, last.args.branch_name)
                IN  /\ stored.description = last.args.description
                    /\ stored.owner = last.args.owner
                    /\ stored.status = "active"
                    /\ stored.created_at <= now

\* A branch registered earlier, while tasks exist, was registered again later
\* with another description and owner, and the call returned False.
BranchRefused ==
    /\ last.op = "register_branch"
    /\ last.ret = FALSE
    /\ Has(data.branches, last.args.branch_name)
    /\ Get(data.branches, last.args.branch_name).description # last.args.description
    /\ Get(data.branches, last.args.branch_name).owner # last.args.owner
    /\ Get(data.branches, last.args.branch_name).created_at < now
    /\ Len(data.tasks) > 0

\* --------------------------------------------------------- pull requests
PullInit == RepoInit(MaxOps)

PullNext ==
    \/ Tick
    \/ \E pr \in PRIDs, author \in AgentIDs : CreatePullRequest(pr, author)
    \/ \E pr \in PRIDs, st \in {None, "merged"}, comment \in {None, "a1"},
          approval \in AgentIDs \cup {None} :
          UpdatePullRequest(pr, st, comment, approval)

PullSpec == PullInit /\ [][PullNext]_vars

\* C25: create_pull_request returns True for an unused ID and stores a pull
\* request with status open and empty comments and approvals; for an ID that
\* exists it returns False and leaves the pull request and the rest of the
\* document unchanged.
PullRequestOnce ==
    last.op = "create_pull_request" =>
        IF Has(last.before.pull_requests, last.args.pr_id)
        THEN last.ret = FALSE /\ data = last.before
        ELSE /\ last.ret = TRUE
             /\ OnlyAdded("pull_requests")
             /\ Has(data.pull_requests, last.args.pr_id)
             /\ LET pr == Get(data.pull_requests, last.args.pr_id)
                IN  /\ pr.status = "open"
                    /\ pr.comments = <<>>
                    /\ pr.approvals = <<>>
                    /\ pr.author = last.args.author

\* A merged pull request with a comment and an approval was created again, by
\* another author at a later time, and the call returned False.
PullRequestRefused ==
    /\ last.op = "create_pull_request"
    /\ last.ret = FALSE
    /\ Has(data.pull_requests, last.args.pr_id)
    /\ LET pr == Get(data.pull_requests, last.args.pr_id)
       IN  /\ pr.status = "merged"
           /\ pr.comments # <<>>
           /\ pr.approvals # <<>>
           /\ pr.author # last.args.author
           /\ pr.created_at < now

\* Sequence s is the beginning of sequence t.
IsPrefix(s, t) == Len(s) <= Len(t) /\ \A i \in 1..Len(s) : s[i] = t[i]

\* C26: each pull request's approvals hold at most one entry per author, and
\* an update_pull_request call never removes or reorders the comments and
\* approvals stored before it.
ApprovalsDeduplicated ==
    /\ \A n \in 1..Len(data.pull_requests) :
          LET approvals == data.pull_requests[n].v.approvals
          IN  \A i, j \in 1..Len(approvals) :
                 approvals[i].author = approvals[j].author => i = j
    /\ (last.op = "update_pull_request"
            /\ Has(last.before.pull_requests, last.args.pr_id)) =>
          LET old == Get(last.before.pull_requests, last.args.pr_id)
              new == Get(data.pull_requests, last.args.pr_id)
          IN  /\ IsPrefix(old.comments, new.comments)
              /\ IsPrefix(old.approvals, new.approvals)

\* An author who had approved approved again at a later time, on a pull
\* request that holds a comment and another author's approval.
ApprovedTwice ==
    /\ last.op = "update_pull_request"
    /\ Has(last.before.pull_requests, last.args.pr_id)
    /\ last.args.approval # None
    /\ LET old == Get(last.before.pull_requests, last.args.pr_id)
       IN  /\ Len(old.approvals) = 2
           /\ old.approvals[1].author = last.args.approval
           /\ old.approvals[1].timestamp < now
           /\ old.comments # <<>>

\* ------------------------------------- the executor: retries and backups
\* C27: once the retry count has reached max_retries and the lock-failure
\* IOError has been raised, that error reaches the caller: the call restores
\* nothing and makes no further transaction attempt.
RetryExhaustion ==
    \A p \in Procs :
        loc[p].exc = "IOError" => pc[p] \in {"restore_check", "raised"}

\* C28: a call restores the .bak over the state file and retries at most
\* once; an I/O error after that is raised to the caller.
BoundedRestore ==
    \A p \in Procs :
        h[p].restored => pc[p] \notin {"restore_open", "restore_copy"}

BackupIsSnapshot ==
    [][\A p \in Procs :
          (pc[p] = "load" /\ pc'[p] \in {"apply", "load_backup"})
          => (bak # Truncated /\ bak = primary)]_vars

\* ------------------------------------------------------------ task trees
\* Tasks, sub-tasks of tasks and of sub-tasks, and deletions.
TreeInit == RepoInit(MaxOps)

TreeNext ==
    \/ Tick
    \/ \E b \in Branches : AddTask(b, None)
    \/ \E id \in TaskIDs : CreateSubtask(id, None)
    \/ \E id \in TaskIDs, b \in Branches \cup {None} : DeleteTask(id, b)
    \/ \E b \in Branches \cup {None} : DeleteAllTasks(b)

TreeSpec == TreeInit /\ [][TreeNext]_vars

\* C31: a successful delete_task(T) removes T (from the given branch, or from
\* every branch) and every task of any branch whose parent_id is T, and no
\* other task: every other task, the tasks whose parent is a removed child
\* included, stays in its bucket in its order.
DeleteCascadesOneLevel ==
    (last.op = "delete_task" /\ last.ret = TRUE) =>
        /\ Len(data.tasks) = Len(last.before.tasks)
        /\ \A i \in 1..Len(data.tasks) :
              LET bucket == last.before.tasks[i]
                  Stays(task) ==
                      /\ task.parent_id # last.args.task_id
                      /\ ~(/\ task.id = last.args.task_id
                           /\ last.args.branch \in {None, bucket.k})
              IN  /\ data.tasks[i].k = bucket.k
                  /\ data.tasks[i].v = SelectSeq(bucket.v, Stays)

\* A task with a child and a grandchild was deleted: the child is gone, the
\* grandchild is stored.
GrandchildKept ==
    /\ last.op = "delete_task"
    /\ last.ret = TRUE
    /\ \E child, grandchild \in AllTasks(last.before) :
          /\ child.parent_id = last.args.task_id
          /\ grandchild.parent_id = child.id
          /\ child \notin AllTasks(data)
          /\ grandchild \in AllTasks(data)

\* C32: a delete_task that returns False leaves the tasks collection as it
\* was; subtasks of the task stored in other branches are not removed.
FailedDeleteChangesNothing ==
    (last.op = "delete_task" /\ last.ret = FALSE) => data.tasks = last.before.tasks

\* C34: a successful create_subtask(P) stores the new task at the end of the
\* bucket that holds P, with parent_id = P, and appends its ID to P's subtasks;
\* and in every state each ID in a task's subtasks names a stored task whose
\* parent_id is that task.
SubtaskLinkage ==
    /\ (last.op = "create_subtask" /\ last.ret # NoTask) =>
          LET pl == FirstPlace(PlacesOf(last.before, last.args.parent_task_id,
                                        1..Len(last.before.tasks)))
              bucket == data.tasks[pl[1]].v
          IN  /\ Len(bucket) = Len(last.before.tasks[pl[1]].v) + 1
              /\ bucket[Len(bucket)].id = last.ret
              /\ bucket[Len(bucket)].parent_id = last.args.parent_task_id
              /\ bucket[pl[2]].subtasks
                    = Append(last.before.tasks[pl[1]].v[pl[2]].subtasks, last.ret)
    /\ \A task \in AllTasks(data) :
          \A sid \in Range(task.subtasks) :
             \E child \in AllTasks(data) : child.id = sid /\ child.parent_id = task.id

\* C33: every ID in an agent's tasks_current is the ID of a stored task that
\* is assigned to that agent and not completed, and occurs once in the list.
TasksCurrentIntegrity ==
    \A i \in 1..Len(data.agents) :
        LET current == data.agents[i].v.tasks_current
        IN  \A n \in 1..Len(current) :
               /\ \E task \in AllTasks(data) :
                     /\ task.id = current[n]
                     /\ task.assigned_to = data.agents[i].k
                     /\ task.status # "completed"
               /\ \A m \in 1..Len(current) : current[m] = current[n] => m = n

\* C36: update_task_status with a branch name changes no task outside that
\* branch's bucket, and returns False, changing nothing, when that bucket does
\* not hold the task ID (or does not exist).
UpdateHonoursBranch ==
    (last.op = "update_task_status" /\ last.args.branch # None) =>
        /\ \A i \in 1..Len(last.before.tasks) :
              last.before.tasks[i].k # last.args.branch
                 => data.tasks[i] = last.before.tasks[i]
        /\ (\A task \in Range(Bucket(last.before, last.args.branch)) :
               task.id # last.args.task_id)
              => (last.ret = FALSE /\ data = last.before)

\* The IDs one parent_id link away from a task with an ID in ids.
ParentsOf(d, ids) ==
    {task.parent_id : task \in {x \in AllTasks(d) : x.id \in ids /\ x.parent_id # NoTask}}

\* The IDs reached from ids by one to n parent_id links.
RECURSIVE Ancestors(_, _, _)
Ancestors(d, ids, n) ==
    IF n = 0 THEN {}
    ELSE ParentsOf(d, ids) \cup Ancestors(d, ParentsOf(d, ids), n - 1)

\* C35: following parent_id links from any stored task never leads back to
\* that task, and no task is its own parent.
ParentForest ==
    \A task \in AllTasks(data) :
        /\ task.parent_id # task.id
        /\ task.id \notin Ancestors(data, {task.id}, Cardinality(AllTasks(data)))

\* A task, its sub-task and the sub-task's sub-task are stored when a
\* deletion has been called.
ChainOfThree ==
    /\ last.op \in {"delete_task", "delete_all_tasks"}
    /\ \E root, child, grandchild \in AllTasks(data) :
          /\ root.parent_id = NoTask
          /\ child.parent_id = root.id
          /\ grandchild.parent_id = child.id

\* --------------------------------------------------------- status history
\* Tasks and sub-tasks are created and their status is updated.
HistoryInit == RepoInit(MaxOps)

HistoryNext ==
    \/ Tick
    \/ \E b \in Branches : AddTask(b, None)
    \/ \E id \in TaskIDs : CreateSubtask(id, None)
    \/ \E id \in TaskIDs, st \in TaskStatuses, b \in Branches \cup {None}, m \in Notes :
          UpdateTaskStatus(id, st, b, m)

HistorySpec == HistoryInit /\ [][HistoryNext]_vars

\* The status_history of the task at place pl of the document d.
HistoryAt(d, pl) == TaskAt(d, pl).status_history

\* C37: an update_task_status call that finds the task and carries a message
\* appends one record with the new status and the message to the end of that
\* task's status_history and leaves every other history as it was; a call
\* without a message, a call that finds no task, add_task and create_subtask
\* leave every status_history as it was.
HistoryAppendOnly ==
    /\ (last.op = "update_task_status" /\ last.ret = TRUE /\ last.args.message # None) =>
          \E pl \in Places(last.before) :
             /\ TaskAt(last.before, pl).id = last.args.task_id
             /\ Len(HistoryAt(data, pl)) = Len(HistoryAt(last.before, pl)) + 1
             /\ IsPrefix(HistoryAt(last.before, pl), HistoryAt(data, pl))
             /\ LET record == HistoryAt(data, pl)[Len(HistoryAt(data, pl))]
                IN  /\ record.status = last.args.new_status
                    /\ record.message = last.args.message
                    /\ record.timestamp <= now
             /\ \A q \in Places(last.before) \ {pl} :
                   HistoryAt(data, q) = HistoryAt(last.before, q)
    /\ (\/ last.op \in {"add_task", "create_subtask"}
        \/ /\ last.op = "update_task_status"
           /\ (last.ret = FALSE \/ last.args.message = None)) =>
          \A q \in Places(last.before) : HistoryAt(data, q) = HistoryAt(last.before, q)

\* A task whose history holds two records of different seconds was updated
\* without a message.
UpdatedWithoutMessage ==
    /\ last.op = "update_task_status"
    /\ last.ret = TRUE
    /\ last.args.message = None
    /\ \E pl \in Places(data) :
          /\ TaskAt(data, pl).id = last.args.task_id
          /\ TaskAt(data, pl).status = last.args.new_status
          /\ Len(HistoryAt(data, pl)) = 2
          /\ HistoryAt(data, pl)[1].timestamp < HistoryAt(data, pl)[2].timestamp

\* ------------------------------------- the executor: queries and the lock
\* C38: a query leaves the persisted document as it is: once a query has
\* returned (no process died, no callback raised an OS-class error, no
\* process is between a truncate and its write), the state file parses and
\* holds the entries of all committed transactions, also when the query or
\* the writer beside it took the lock-wait-timeout path.
QueriesPreserveDocument ==
    \A p \in Procs :
        (/\ loc[p].op = "get_messages"
         /\ pc[p] = "returned"
         /\ ~crashed /\ ~ioRaised
         /\ \A q \in Procs : ~Writing(q))
        => (Parses(primary) /\ MessagesIn(primary) = commits)

\* C39: a process that is writing the state file (commit, rollback or the
\* copy of the .bak over it) holds the lock or has taken the
\* lock-wait-timeout path.
WritesUnderLock ==
    \A p \in Procs :
        pc[p] \in {"commit_write", "rollback_write", "restore_open", "restore_copy"}
            => (lockHolder = p \/ loc[p].usedForce)

\* ------------------------------------------------------------ add_task
\* Agents register, tasks are added for registered and unregistered
\* assignees and for nobody, messages are sent.
AddInit == RepoInit(MaxOps)

AddNext ==
    \/ Tick
    \/ RegisterAgent("a1", {"python"})
    \/ \E b \in Branches, a \in AgentIDs \cup {None} : AddTask(b, a)
    \/ AddMessage("a1", "a2")

AddSpec == AddInit /\ [][AddNext]_vars

\* C40: add_task appends one task with status pending at the end of the
\* branch's bucket, creating the bucket if absent; the new ID is appended to
\* the tasks_current of a registered assignee and the agents collection is
\* unchanged otherwise; the other buckets and the messages, branches,
\* pull_requests and reasoning_logs collections are unchanged.
AddTaskEffect ==
    last.op = "add_task" =>
        LET B == last.args.branch
            A == last.args.assigned_to
            old == Bucket(last.before, B)
            new == Bucket(data, B)
        IN  /\ Has(data.tasks, B)
            /\ new = Append(old, new[Len(new)])
            /\ new[Len(new)].id = last.ret
            /\ new[Len(new)].status = "pending"
            /\ new[Len(new)].assigned_to = A
            /\ \A i \in 1..Len(last.before.tasks) :
                  /\ data.tasks[i].k = last.before.tasks[i].k
                  /\ data.tasks[i].k # B => data.tasks[i] = last.before.tasks[i]
            /\ Len(data.tasks) = Len(last.before.tasks)
                                    + (IF Has(last.before.tasks, B) THEN 0 ELSE 1)
            /\ IF A # None /\ Has(last.before.agents, A)
               THEN /\ Len(data.agents) = Len(last.before.agents)
                    /\ \A i \in 1..Len(data.agents) :
                          IF data.agents[i].k = A
                          THEN data.agents[i].v =
                                  [last.before.agents[i].v EXCEPT
                                      !.tasks_current = Append(@, last.ret)]
                          ELSE data.agents[i] = last.before.agents[i]
               ELSE data.agents = last.before.agents
            /\ \A k \in KeySet \ {"tasks", "agents"} : data[k] = last.before[k]

\* A task was added to a new bucket for an unregistered assignee while the
\* document holds a registered agent with a task, another bucket and a message.
AddedForStranger ==
    /\ last.op = "add_task"
    /\ last.args.assigned_to = "a2"
    /\ ~Has(last.before.tasks, last.args.branch)
    /\ Len(last.before.tasks) = 1
    /\ Has(data.agents, "a1")
    /\ Get(data.agents, "a1").tasks_current # <<>>
    /\ data.messages # <<>>

====
